---- MODULE Spec2Model ----
(***************************************************************************)
(* PrivateL1PrivateL2SharedL3CacheHierarchy: construction of the hierarchy *)
(* object and the wiring pass incorporate_cache(board).                    *)
(*                                                                         *)
(* A port is named by the run (hierarchy/board) that owns the object, the  *)
(* object, its index and the port's attribute name.  A scalar port holds   *)
(* at most one peer (<<>> or <<p>>); a vector port holds a sequence of     *)
(* peers, and assigning to it appends one connection.                      *)
(* An optional value (a keyword argument that may be left out, an          *)
(* attribute not yet set) is <<>> or <<v>>.                                *)
(***************************************************************************)
EXTENDS Integers, Sequences, FiniteSets

VARIABLES
    pc,      \* [Hier -> position of the hierarchy's life: construction, wiring pass]
    idx,     \* [Hier -> loop index of the running loop of incorporate_cache]
    hier,    \* [Hier -> the attributes of the hierarchy object (self)]
    xbar,    \* [BusIds -> the SystemXBar objects that can serve as membus]
    board,   \* [Hier -> the board the hierarchy is incorporated into, <<>> before]
    ctor     \* [Hier -> the arguments the constructor was called with, <<>> before]

vars == <<pc, idx, hier, xbar, board, ctor>>

----------------------------------------------------------------------------
(* Bounds of the model *)

MaxCores == 2
MaxMemPorts == 2

(* Program constants *)

MembusWidth == 64
DefaultL1DAssoc == 8
DefaultL1IAssoc == 8
DefaultL2Assoc == 16
DefaultL3Assoc == 16
MMUCacheSizeKiB == 256
IOAssoc == 8
IOTagLatency == 50
IODataLatency == 50
IOResponseLatency == 50
IOMshrs == 32
IOSizeKB == 256
IOTgtsPerMshr == 12
IOWriteBuffers == 32

----------------------------------------------------------------------------
(* Values *)

Hier == {"h1", "h2"}

DefaultBus == "default_membus"
ExplicitBus(h) == IF h = "h1" THEN "membus_h1" ELSE "membus_h2"
BusIds == {DefaultBus} \cup {ExplicitBus(h) : h \in Hier}

ISAs == {"X86", "ARM"}

\* A size string "<integer><unit>" is kept as its two parts.
Size(n, u) == <<n, u>>

Port(h, obj, i, p) == [run |-> h, obj |-> obj, i |-> i, port |-> p]

\* The board's own objects
SystemPort(h) == Port(h, "board", 0, "system_port")
MemPort(h, k) == Port(h, "memory", k, "port")
CoherentIOPort(h) == Port(h, "board", 0, "mem_side_coherent_io_port")
ICachePort(h, i) == Port(h, "core", i, "icache_port")
DCachePort(h, i) == Port(h, "core", i, "dcache_port")
ITBWalker(h, i) == Port(h, "core", i, "itb_walker")
DTBWalker(h, i) == Port(h, "core", i, "dtb_walker")
IntReq(h, i) == Port(h, "core", i, "interrupt_request")
IntResp(h, i) == Port(h, "core", i, "interrupt_response")

\* Assigning a peer to a vector port adds a connection at its end.
VectorConnect(ports, peer) == Append(ports, peer)

NoCore == [icache |-> <<>>, dcache |-> <<>>, walker |-> <<>>, interrupt |-> <<>>]

\* A board with n cores, m memory ports (one address range each).
NewBoard(h, n, isa, cio, m) ==
    [num_cores |-> n, isa |-> isa, coherent_io |-> cio,
     mem_ports |-> [k \in 1..m |-> MemPort(h, k)],
     mem_ranges |-> [k \in 1..m |-> <<"range", k>>],
     system_port |-> <<>>,
     coherent_io_port |-> <<>>,
     cores |-> [i \in 1..n |-> NoCore]]

----------------------------------------------------------------------------
(* Constructor arguments *)

SizeUnits == {"kB", "KiB", "MB"}

UnitBytes(u) == IF u = "MB" THEN 1024 * 1024 ELSE 1024

\* The byte count of a size string; -1 when it does not parse.
ParseSize(s) == IF s[2] \in SizeUnits /\ s[1] >= 0 THEN s[1] * UnitBytes(s[2]) ELSE -1

ExampleArgs ==
    [l1d_size |-> Size(32, "kB"), l1i_size |-> Size(32, "kB"),
     l2_size |-> Size(256, "kB"), l3_size |-> Size(1024, "kB"),
     l1d_assoc |-> <<>>, l1i_assoc |-> <<>>, l2_assoc |-> <<>>, l3_assoc |-> <<>>]

DistinctArgs ==
    [l1d_size |-> Size(64, "kB"), l1i_size |-> Size(16, "kB"),
     l2_size |-> Size(512, "kB"), l3_size |-> Size(2, "MB"),
     l1d_assoc |-> <<4>>, l1i_assoc |-> <<2>>, l2_assoc |-> <<8>>, l3_assoc |-> <<32>>]

BadSizes == {Size(0, "kB"), Size(32, "xx")}
BadAssocs == {0, -1}
SizeFields == {"l1d_size", "l1i_size", "l2_size", "l3_size"}
AssocFields == {"l1d_assoc", "l1i_assoc", "l2_assoc", "l3_assoc"}

BadArgs ==
    {[DistinctArgs EXCEPT ![f] = s] : f \in SizeFields, s \in BadSizes}
    \cup {[DistinctArgs EXCEPT ![f] = <<a>>] : f \in AssocFields, a \in BadAssocs}

CtorArgs == {ExampleArgs, DistinctArgs} \cup BadArgs

----------------------------------------------------------------------------
(* Objects *)

BusPort(bus, p) == Port(bus, "membus", 0, p)

\* SystemXBar(width=64) with a BadAddr responder on its default port
_get_default_membus ==
    [width |-> MembusWidth,
     badaddr_responder |-> <<"BadAddr">>,
     default |-> <<Port(DefaultBus, "badaddr_responder", 0, "pio")>>,
     cpu_side_ports |-> <<>>,
     mem_side_ports |-> <<>>]

\* A crossbar the caller built and passes as the membus argument
CallerXBar(b) ==
    [width |-> 2 * MembusWidth,
     badaddr_responder |-> <<>>,
     default |-> <<>>,
     cpu_side_ports |-> <<>>,
     mem_side_ports |-> <<>>]

\* The value of the membus parameter: the default of the signature is the
\* one object made when the def statement ran.
MembusParam(given) == IF given = <<>> THEN DefaultBus ELSE given[1]

NewCache(cls, size, assoc, wbc) ==
    [cls |-> cls, size |-> size, assoc |-> assoc, writeback_clean |-> wbc,
     cpu_side |-> <<>>, mem_side |-> <<>>]

NewXBar(cls) == [cls |-> cls, cpu_side_ports |-> <<>>, mem_side_ports |-> <<>>]

NoHier ==
    [cfg |-> <<>>, membus |-> <<>>,
     l1icaches |-> <<>>, l1dcaches |-> <<>>, l2buses |-> <<>>, l2caches |-> <<>>,
     l3bus |-> <<>>, l3cache |-> <<>>,
     iptw_caches |-> <<>>, dptw_caches |-> <<>>,
     iocache |-> <<>>]

----------------------------------------------------------------------------
(* __init__ *)

ValidSize(s) == ParseSize(s) > 0
ValidAssoc(a) == a >= 1

\* AbstractThreeLevelCacheHierarchy.__init__: the eight values it records,
\* or <<>> when it raises InvalidSpecError.
ThreeLevelInit(l1i_size, l1i_assoc, l1d_size, l1d_assoc, l2_size, l2_assoc, l3_size, l3_assoc) ==
    IF /\ ValidSize(l1i_size) /\ ValidSize(l1d_size)
       /\ ValidSize(l2_size) /\ ValidSize(l3_size)
       /\ ValidAssoc(l1i_assoc) /\ ValidAssoc(l1d_assoc)
       /\ ValidAssoc(l2_assoc) /\ ValidAssoc(l3_assoc)
    THEN <<[l1i_size |-> l1i_size, l1i_assoc |-> l1i_assoc,
            l1d_size |-> l1d_size, l1d_assoc |-> l1d_assoc,
            l2_size |-> l2_size, l2_assoc |-> l2_assoc,
            l3_size |-> l3_size, l3_assoc |-> l3_assoc]>>
    ELSE <<>>

OrDefault(given, d) == IF given = <<>> THEN d ELSE given[1]

\* The constructor with the L1 data values handed over as the L1 instruction
\* values and the reverse
HierarchyInitMixed(a) ==
    ThreeLevelInit(a.l1d_size, OrDefault(a.l1d_assoc, DefaultL1DAssoc),
                   a.l1i_size, OrDefault(a.l1i_assoc, DefaultL1IAssoc),
                   a.l2_size, OrDefault(a.l2_assoc, DefaultL2Assoc),
                   a.l3_size, OrDefault(a.l3_assoc, DefaultL3Assoc))

\* The keyword arguments the constructor hands to the three-level base class
HierarchyInit(a) ==
    ThreeLevelInit(a.l1i_size, OrDefault(a.l1i_assoc, DefaultL1IAssoc),
                   a.l1d_size, OrDefault(a.l1d_assoc, DefaultL1DAssoc),
                   a.l2_size, OrDefault(a.l2_assoc, DefaultL2Assoc),
                   a.l3_size, OrDefault(a.l3_assoc, DefaultL3Assoc))

\* No call of another hierarchy is in progress (one thread of control).
Idle(h) == \A g \in Hier \ {h} : pc[g] \in {"new", "InvalidSpecError", "ready", "done"}

Construct(h) ==
    /\ pc[h] = "new"
    /\ Idle(h)
    /\ \E a \in CtorArgs, m \in {<<>>, <<ExplicitBus(h)>>} :
         LET cfg == HierarchyInit(a) IN
         IF cfg = <<>>
         THEN /\ pc' = [pc EXCEPT ![h] = "InvalidSpecError"]
              /\ hier' = hier
              /\ ctor' = [ctor EXCEPT ![h] = <<[args |-> a, membus |-> m]>>]
         ELSE /\ pc' = [pc EXCEPT ![h] = "ready"]
              /\ hier' = [hier EXCEPT ![h].cfg = cfg,
                                      ![h].membus = <<MembusParam(m)>>]
              /\ ctor' = [ctor EXCEPT ![h] = <<[args |-> a, membus |-> m]>>]
    /\ UNCHANGED <<idx, xbar, board>>

----------------------------------------------------------------------------
(* incorporate_cache *)

B(h) == board[h][1]
Bus(h) == hier[h].membus[1]
Cfg(h) == hier[h].cfg[1]

\* board.connect_system_port(port): the board's system port is bound to it.
connect_system_port(h, b) == [b EXCEPT !.system_port = <<BusPort(Bus(h), "cpu_side_ports")>>]

\* Entry of incorporate_cache(board) and its first statement
ConnectSystemPort(h) ==
    /\ pc[h] = "ready"
    /\ Idle(h)
    /\ \E n \in 0..MaxCores, isa \in ISAs, cio \in BOOLEAN, m \in 0..MaxMemPorts :
         board' = [board EXCEPT ![h] = <<connect_system_port(h, NewBoard(h, n, isa, cio, m))>>]
    /\ xbar' = [xbar EXCEPT ![Bus(h)].cpu_side_ports = VectorConnect(@, SystemPort(h))]
    /\ pc' = [pc EXCEPT ![h] = "mem_ports"]
    /\ idx' = [idx EXCEPT ![h] = 0]
    /\ UNCHANGED <<hier, ctor>>

\* The assignment taken as setting the list to the one port
BindMemPortReplace(ports, p) == <<p>>

\* self.membus.mem_side_ports = port
BindMemPort(ports, p) == VectorConnect(ports, p)

\* One turn of the loop over board.get_memory().get_mem_ports()
MemPortLoop(h) ==
    /\ pc[h] = "mem_ports"
    /\ idx[h] < Len(B(h).mem_ports)
    /\ xbar' = [xbar EXCEPT ![Bus(h)].mem_side_ports = BindMemPort(@, B(h).mem_ports[idx[h] + 1])]
    /\ idx' = [idx EXCEPT ![h] = @ + 1]
    /\ UNCHANGED <<pc, hier, board, ctor>>

\* The list comprehension of the L1 instruction caches, one turn short
MakeL1ICachesShort(cfg, n) ==
    [i \in 1..(n - 1) |-> NewCache("L1ICache", cfg.l1i_size, <<cfg.l1i_assoc>>, <<FALSE>>)]

\* The L1 instruction caches built like the L1 data caches, without the flag
MakeL1ICachesNoFlag(cfg, n) ==
    [i \in 1..n |-> NewCache("L1ICache", cfg.l1i_size, <<cfg.l1i_assoc>>, <<>>)]

\* self.l1icaches = [L1ICache(size, assoc, writeback_clean=False) for each core]
MakeL1ICaches(cfg, n) ==
    [i \in 1..n |-> NewCache("L1ICache", cfg.l1i_size, <<cfg.l1i_assoc>>, <<FALSE>>)]

MakeL1DCaches(cfg, n) ==
    [i \in 1..n |-> NewCache("L1DCache", cfg.l1d_size, <<cfg.l1d_assoc>>, <<>>)]

MakeL2Buses(n) == [i \in 1..n |-> NewXBar("L2XBar")]

MakeL2Caches(cfg, n) == [i \in 1..n |-> NewCache("L2Cache", cfg.l2_size, <<>>, <<>>)]

MakeL3Bus == NewXBar("L3XBar")

MakeL3Cache(cfg) == NewCache("L3Cache", cfg.l3_size, <<cfg.l3_assoc>>, <<>>)

MakeMMUCaches(n) ==
    [i \in 1..n |-> NewCache("MMUCache", Size(MMUCacheSizeKiB, "KiB"), <<>>, <<FALSE>>)]

\* The object construction between the two loops; the loop over the memory
\* ports has ended.
BuildCaches(h) ==
    /\ pc[h] = "mem_ports"
    /\ idx[h] = Len(B(h).mem_ports)
    /\ LET n == B(h).num_cores IN
       hier' = [hier EXCEPT ![h].l1icaches = MakeL1ICaches(Cfg(h), n),
                            ![h].l1dcaches = MakeL1DCaches(Cfg(h), n),
                            ![h].l2buses = MakeL2Buses(n),
                            ![h].l2caches = MakeL2Caches(Cfg(h), n),
                            ![h].l3bus = <<MakeL3Bus>>,
                            ![h].l3cache = <<MakeL3Cache(Cfg(h))>>,
                            ![h].iptw_caches = MakeMMUCaches(n),
                            ![h].dptw_caches = MakeMMUCaches(n)]
    /\ pc' = [pc EXCEPT ![h] = "io"]
    /\ UNCHANGED <<idx, xbar, board, ctor>>

\* Cache(assoc=8, tag_latency=50, ..., addr_ranges=board.mem_ranges)
IOCache(mem_ranges) ==
    [cls |-> "Cache", assoc |-> IOAssoc,
     tag_latency |-> IOTagLatency, data_latency |-> IODataLatency,
     response_latency |-> IOResponseLatency,
     mshrs |-> IOMshrs, size |-> Size(IOSizeKB, "kB"),
     tgts_per_mshr |-> IOTgtsPerMshr, write_buffers |-> IOWriteBuffers,
     addr_ranges |-> mem_ranges,
     cpu_side |-> <<>>, mem_side |-> <<>>]

\* _setup_io_cache with the cache's memory side bound to the other list
_setup_io_cache_mem_side(h) ==
    /\ hier' = [hier EXCEPT ![h].iocache =
                   <<[IOCache(B(h).mem_ranges) EXCEPT
                        !.mem_side = <<BusPort(Bus(h), "mem_side_ports")>>,
                        !.cpu_side = <<CoherentIOPort(h)>>]>>]
    /\ xbar' = [xbar EXCEPT ![Bus(h)].mem_side_ports =
                   VectorConnect(@, Port(h, "iocache", 0, "mem_side"))]
    /\ board' = [board EXCEPT ![h][1].coherent_io_port = <<Port(h, "iocache", 0, "cpu_side")>>]

\* _setup_io_cache(board)
_setup_io_cache(h) ==
    /\ hier' = [hier EXCEPT ![h].iocache =
                   <<[IOCache(B(h).mem_ranges) EXCEPT
                        !.mem_side = <<BusPort(Bus(h), "cpu_side_ports")>>,
                        !.cpu_side = <<CoherentIOPort(h)>>]>>]
    /\ xbar' = [xbar EXCEPT ![Bus(h)].cpu_side_ports =
                   VectorConnect(@, Port(h, "iocache", 0, "mem_side"))]
    /\ board' = [board EXCEPT ![h][1].coherent_io_port = <<Port(h, "iocache", 0, "cpu_side")>>]

\* The I/O cache set up on every board
has_coherent_io_always(h) == TRUE

\* board.has_coherent_io()
has_coherent_io(h) == B(h).coherent_io

\* if board.has_coherent_io(): self._setup_io_cache(board)
IOStep(h) ==
    /\ pc[h] = "io"
    /\ IF has_coherent_io(h)
       THEN _setup_io_cache(h)
       ELSE UNCHANGED <<hier, xbar, board>>
    /\ pc' = [pc EXCEPT ![h] = "cores"]
    /\ idx' = [idx EXCEPT ![h] = 0]
    /\ UNCHANGED ctor

\* The first-level caches of every core bound to the first core's crossbar
WireFirstLevelBus1(h, i, c, cpuport) ==
    [c EXCEPT !.cpu_side = <<cpuport>>,
              !.mem_side = <<Port(h, "l2bus", 1, "cpu_side_ports")>>]

\* cpu.connect_icache / connect_dcache / connect_walker_ports and the
\* mem_side assignment of the four first-level caches of core i
WireFirstLevel(h, i, c, cpuport) ==
    [c EXCEPT !.cpu_side = <<cpuport>>,
              !.mem_side = <<Port(h, "l2bus", i, "cpu_side_ports")>>]

\* The private L2 crossbar of core i after its five assignments
WireL2Bus(h, i, x) ==
    [x EXCEPT !.cpu_side_ports =
                  VectorConnect(VectorConnect(VectorConnect(VectorConnect(@,
                      Port(h, "l1icache", i, "mem_side")),
                      Port(h, "l1dcache", i, "mem_side")),
                      Port(h, "iptw_cache", i, "mem_side")),
                      Port(h, "dptw_cache", i, "mem_side")),
              !.mem_side_ports = VectorConnect(@, Port(h, "l2cache", i, "cpu_side"))]

\* The private L2 cache of core i between its crossbar and the L3 crossbar
WireL2Cache(h, i, c) ==
    [c EXCEPT !.cpu_side = <<Port(h, "l2bus", i, "mem_side_ports")>>,
              !.mem_side = <<Port(h, "l3bus", 0, "cpu_side_ports")>>]

\* The fan-in with the first core's L2 cache in every turn
L3FanInFirst(h, i, ports) == VectorConnect(ports, Port(h, "l2cache", 1, "mem_side"))

\* self.l3bus.cpu_side_ports = self.l2caches[i].mem_side
L3FanIn(h, i, ports) == VectorConnect(ports, Port(h, "l2cache", i, "mem_side"))

\* The membus ports handed over whatever the ISA
InterruptArgsAnyISA(h) ==
    <<BusPort(Bus(h), "mem_side_ports"), BusPort(Bus(h), "cpu_side_ports")>>

\* The arguments of cpu.connect_interrupt: <<>> for the call without any
InterruptArgs(h) ==
    IF B(h).isa = "X86"
    THEN <<BusPort(Bus(h), "mem_side_ports"), BusPort(Bus(h), "cpu_side_ports")>>
    ELSE <<>>

\* cpu.connect_interrupt(...) seen from the bus: with ports given, the core's
\* interrupt controller is bound to them.
connect_interrupt(h, i, args, bus) ==
    IF args = <<>>
    THEN bus
    ELSE [bus EXCEPT !.mem_side_ports = VectorConnect(@, IntReq(h, i)),
                     !.cpu_side_ports = VectorConnect(@, IntResp(h, i))]

\* The core's record of the calls made on it
WireCpu(h, i, cpu) ==
    [cpu EXCEPT !.icache = Append(@, Port(h, "l1icache", i, "cpu_side")),
                !.dcache = Append(@, Port(h, "l1dcache", i, "cpu_side")),
                !.walker = Append(@, <<Port(h, "iptw_cache", i, "cpu_side"),
                                       Port(h, "dptw_cache", i, "cpu_side")>>),
                !.interrupt = Append(@, InterruptArgs(h))]

\* One turn of the loop over board.get_processor().get_cores()
WireCore(h) ==
    /\ pc[h] = "cores"
    /\ idx[h] < B(h).num_cores
    /\ LET i == idx[h] + 1 IN
       /\ hier' = [hier EXCEPT
             ![h].l1icaches[i] = WireFirstLevel(h, i, @, ICachePort(h, i)),
             ![h].l1dcaches[i] = WireFirstLevel(h, i, @, DCachePort(h, i)),
             ![h].iptw_caches[i] = WireFirstLevel(h, i, @, ITBWalker(h, i)),
             ![h].dptw_caches[i] = WireFirstLevel(h, i, @, DTBWalker(h, i)),
             ![h].l2buses[i] = WireL2Bus(h, i, @),
             ![h].l2caches[i] = WireL2Cache(h, i, @),
             ![h].l3bus[1].cpu_side_ports = L3FanIn(h, i, @)]
       /\ board' = [board EXCEPT ![h][1].cores[i] = WireCpu(h, i, @)]
       /\ xbar' = [xbar EXCEPT ![Bus(h)] = connect_interrupt(h, i, InterruptArgs(h), @)]
    /\ idx' = [idx EXCEPT ![h] = @ + 1]
    /\ UNCHANGED <<pc, ctor>>

\* The L3 cache after the last two assignments
WireL3Cache(h, c) ==
    [c EXCEPT !.cpu_side = <<Port(h, "l3bus", 0, "mem_side_ports")>>,
              !.mem_side = <<BusPort(Bus(h), "cpu_side_ports")>>]

\* The two assignments after the loop over the cores
ConnectL3(h) ==
    /\ pc[h] = "cores"
    /\ idx[h] = B(h).num_cores
    /\ hier' = [hier EXCEPT
          ![h].l3bus[1].mem_side_ports = VectorConnect(@, Port(h, "l3cache", 0, "cpu_side")),
          ![h].l3cache[1] = WireL3Cache(h, @)]
    /\ xbar' = [xbar EXCEPT ![Bus(h)].cpu_side_ports =
                   VectorConnect(@, Port(h, "l3cache", 0, "mem_side"))]
    /\ pc' = [pc EXCEPT ![h] = "done"]
    /\ UNCHANGED <<idx, board, ctor>>

----------------------------------------------------------------------------
(* Specification *)

Init ==
    /\ pc = [h \in Hier |-> "new"]
    /\ idx = [h \in Hier |-> 0]
    /\ hier = [h \in Hier |-> NoHier]
    /\ xbar = [b \in BusIds |-> IF b = DefaultBus THEN _get_default_membus ELSE CallerXBar(b)]
    /\ board = [h \in Hier |-> <<>>]
    /\ ctor = [h \in Hier |-> <<>>]

Next ==
    \E h \in Hier :
        \/ Construct(h)
        \/ ConnectSystemPort(h)
        \/ MemPortLoop(h)
        \/ BuildCaches(h)
        \/ IOStep(h)
        \/ WireCore(h)
        \/ ConnectL3(h)

Spec == Init /\ [][Next]_vars

----------------------------------------------------------------------------
(* Properties *)

Started(h) == pc[h] \in {"mem_ports", "io", "cores", "done"}
Built(h) == pc[h] \in {"io", "cores", "done"}
Done(h) == pc[h] = "done"

Range(seq) == {seq[k] : k \in 1..Len(seq)}
Count(seq, x) == Cardinality({k \in 1..Len(seq) : seq[k] = x})
IsPrefix(s, t) == Len(s) <= Len(t) /\ SubSeq(t, 1, Len(s)) = s

\* The connections on the membus's two port lists that run h made
OwnCpuSide(h) == SelectSeq(xbar[Bus(h)].cpu_side_ports, LAMBDA p : p.run = h)
OwnMemSide(h) == SelectSeq(xbar[Bus(h)].mem_side_ports, LAMBDA p : p.run = h)

AllOfClass(seq, cls) == \A k \in 1..Len(seq) : seq[k].cls = cls

\* C1: once incorporate_cache has built its objects on a board with n cores
\* (n = 0 included), the hierarchy holds exactly n L1I caches, n L1D caches,
\* n L2 crossbars, n L2 caches, n instruction-side and n data-side page-walk
\* caches, one L3 crossbar, one L3 cache and one membus.
C1_ObjectCounts ==
    \A h \in Hier : Built(h) =>
        LET n == B(h).num_cores IN
        /\ Len(hier[h].l1icaches) = n /\ AllOfClass(hier[h].l1icaches, "L1ICache")
        /\ Len(hier[h].l1dcaches) = n /\ AllOfClass(hier[h].l1dcaches, "L1DCache")
        /\ Len(hier[h].l2buses) = n /\ AllOfClass(hier[h].l2buses, "L2XBar")
        /\ Len(hier[h].l2caches) = n /\ AllOfClass(hier[h].l2caches, "L2Cache")
        /\ Len(hier[h].iptw_caches) = n /\ AllOfClass(hier[h].iptw_caches, "MMUCache")
        /\ Len(hier[h].dptw_caches) = n /\ AllOfClass(hier[h].dptw_caches, "MMUCache")
        /\ Len(hier[h].iptw_caches) + Len(hier[h].dptw_caches) = 2 * n
        /\ Len(hier[h].l3bus) = 1 /\ hier[h].l3bus[1].cls = "L3XBar"
        /\ Len(hier[h].l3cache) = 1 /\ hier[h].l3cache[1].cls = "L3Cache"
        /\ Len(hier[h].membus) = 1 /\ hier[h].membus[1] \in BusIds

\* Both cases in one state: a finished run on a board without cores and a
\* finished run on a board with several.
C1_Witness ==
    /\ Done("h1") /\ B("h1").num_cores = 0
    /\ Done("h2") /\ B("h2").num_cores >= 2

\* C2: after incorporate_cache on n cores the L3 crossbar's core-facing list
\* is exactly the memory-facing ports of L2 cache 1..n in order, its
\* memory-facing list is exactly the L3 cache, and the L3 cache's
\* memory-facing port is one connection of the membus's core-facing list.
C2_L3FanIn ==
    \A h \in Hier : Done(h) =>
        LET n == B(h).num_cores IN
        /\ hier[h].l3bus[1].cpu_side_ports = [i \in 1..n |-> Port(h, "l2cache", i, "mem_side")]
        /\ \A i \in 1..n : hier[h].l2caches[i].mem_side = <<Port(h, "l3bus", 0, "cpu_side_ports")>>
        /\ hier[h].l3bus[1].mem_side_ports = <<Port(h, "l3cache", 0, "cpu_side")>>
        /\ hier[h].l3cache[1].cpu_side = <<Port(h, "l3bus", 0, "mem_side_ports")>>
        /\ hier[h].l3cache[1].mem_side = <<BusPort(Bus(h), "cpu_side_ports")>>
        /\ Count(xbar[Bus(h)].cpu_side_ports, Port(h, "l3cache", 0, "mem_side")) = 1

C2_Witness == \E h \in Hier : Done(h) /\ B(h).num_cores >= 2

\* C3: every wired core got exactly one connect_interrupt call; on X86 its
\* arguments are the membus's memory-side list (request) and core-facing list
\* (response); on any other ISA it has no arguments and the run adds no
\* interrupt connection to the membus.
C3_Interrupts ==
    \A h \in Hier : Started(h) =>
        /\ \A i \in 1..B(h).num_cores :
              LET calls == B(h).cores[i].interrupt
                  wired == Done(h) \/ (pc[h] = "cores" /\ i <= idx[h])
              IN /\ Len(calls) = (IF wired THEN 1 ELSE 0)
                 /\ wired /\ B(h).isa = "X86" =>
                      calls[1] = <<BusPort(Bus(h), "mem_side_ports"),
                                   BusPort(Bus(h), "cpu_side_ports")>>
                 /\ wired /\ B(h).isa # "X86" => calls[1] = <<>>
        /\ B(h).isa # "X86" =>
              \A p \in Range(OwnCpuSide(h)) \cup Range(OwnMemSide(h)) : p.obj # "core"

C3_Witness ==
    /\ Done("h1") /\ B("h1").isa = "X86" /\ B("h1").num_cores >= 2
    /\ Done("h2") /\ B("h2").isa # "X86" /\ B("h2").num_cores >= 1

\* C4: after incorporate_cache an I/O cache exists exactly when the board
\* has coherent I/O; it is one Cache with assoc 8, size 256kB, latencies
\* 50/50/50, 32 MSHRs, 12 targets per MSHR, 32 write buffers, the board's
\* memory ranges, bound to the membus's core-facing list and to the board's
\* coherent-I/O port, whatever the constructor's sizes and associativities.
C4_IOCache ==
    \A h \in Hier : Done(h) =>
        /\ (hier[h].iocache # <<>>) <=> B(h).coherent_io
        /\ B(h).coherent_io =>
             /\ hier[h].iocache =
                   <<[cls |-> "Cache", assoc |-> 8, tag_latency |-> 50,
                      data_latency |-> 50, response_latency |-> 50, mshrs |-> 32,
                      size |-> Size(256, "kB"), tgts_per_mshr |-> 12,
                      write_buffers |-> 32, addr_ranges |-> B(h).mem_ranges,
                      cpu_side |-> <<CoherentIOPort(h)>>,
                      mem_side |-> <<BusPort(Bus(h), "cpu_side_ports")>>]>>
             /\ Count(xbar[Bus(h)].cpu_side_ports, Port(h, "iocache", 0, "mem_side")) = 1
             /\ B(h).coherent_io_port = <<Port(h, "iocache", 0, "cpu_side")>>
        /\ ~B(h).coherent_io =>
             /\ Count(xbar[Bus(h)].cpu_side_ports, Port(h, "iocache", 0, "mem_side")) = 0
             /\ B(h).coherent_io_port = <<>>

C4_Witness ==
    /\ Done("h1") /\ B("h1").coherent_io /\ Len(B("h1").mem_ranges) >= 2
    /\ ctor["h1"][1].args = DistinctArgs
    /\ Done("h2") /\ ~B("h2").coherent_io

NotClean(seq) == \A k \in 1..Len(seq) : seq[k].writeback_clean = <<FALSE>>

\* C5 as stated: every L1 instruction, L1 data and page-walk cache was
\* constructed with writeback_clean explicitly false.
C5_AllExplicitlyFalse ==
    \A h \in Hier : Built(h) =>
        /\ NotClean(hier[h].l1icaches) /\ NotClean(hier[h].l1dcaches)
        /\ NotClean(hier[h].iptw_caches) /\ NotClean(hier[h].dptw_caches)

\* C5: every L1 instruction cache and every page-walk cache was constructed
\* with writeback_clean explicitly false; every L1 data cache was constructed
\* with its size and associativity only, writeback_clean not passed.
C5_ExplicitExceptL1D ==
    \A h \in Hier : Built(h) =>
        /\ NotClean(hier[h].l1icaches)
        /\ NotClean(hier[h].iptw_caches) /\ NotClean(hier[h].dptw_caches)
        /\ \A k \in 1..Len(hier[h].l1dcaches) :
              /\ hier[h].l1dcaches[k].writeback_clean = <<>>
              /\ hier[h].l1dcaches[k].size = Cfg(h).l1d_size
              /\ hier[h].l1dcaches[k].assoc = <<Cfg(h).l1d_assoc>>

C5_Witness == \E h \in Hier : Done(h) /\ Len(hier[h].l1dcaches) >= 2 /\ Len(hier[h].l1icaches) >= 2

\* The arguments the constructor of h was called with
Args(h) == ctor[h][1].args

BadArgument(a) ==
    \/ \E f \in SizeFields : a[f][2] \notin {"kB", "KiB", "MB"} \/ a[f][1] <= 0
    \/ \E f \in AssocFields : a[f] # <<>> /\ a[f][1] <= 0

Untouched(h) ==
    /\ hier[h] = NoHier
    /\ board[h] = <<>>
    /\ \A b \in BusIds : \A p \in Range(xbar[b].cpu_side_ports) \cup Range(xbar[b].mem_side_ports) :
          p.run # h

CoreWired(h, i) == B(h).cores[i] # NoCore

\* C7: in a run on a board with coherent I/O the run's connections on the
\* membus's core-facing list are, in order, the system port (made before any
\* other connection of the run), the I/O cache (made before any core is
\* wired), the interrupt responses of the cores if any, and last the L3
\* cache, made when every core is wired.
C7_MembusOrder ==
    \A h \in Hier :
        /\ pc[h] = "ready" =>
              /\ board[h] = <<>> /\ hier[h].l3bus = <<>> /\ hier[h].iocache = <<>>
              /\ \A b \in BusIds : \A p \in Range(xbar[b].cpu_side_ports) \cup Range(xbar[b].mem_side_ports) :
                    p.run # h
        /\ Started(h) /\ B(h).coherent_io =>
              LET own == OwnCpuSide(h)
                  io == Port(h, "iocache", 0, "mem_side")
                  l3 == Port(h, "l3cache", 0, "mem_side")
              IN /\ Len(own) >= 1 /\ own[1] = SystemPort(h)
                 /\ Count(own, SystemPort(h)) = 1
                 /\ pc[h] \in {"mem_ports", "io"} =>
                       /\ Len(own) = 1
                       /\ \A i \in 1..B(h).num_cores : ~CoreWired(h, i)
                 /\ pc[h] \in {"cores", "done"} =>
                       Len(own) >= 2 /\ own[2] = io /\ Count(own, io) = 1
                 /\ pc[h] = "cores" => Count(own, l3) = 0
                 /\ Done(h) =>
                       /\ own[Len(own)] = l3 /\ Count(own, l3) = 1
                       /\ \A i \in 1..B(h).num_cores : CoreWired(h, i)
                       /\ \A k \in 3..(Len(own) - 1) : own[k].obj = "core"
                       /\ {SystemPort(h), io, l3} \subseteq Range(xbar[Bus(h)].cpu_side_ports)

C7_Witness ==
    \E h \in Hier :
        /\ Done(h) /\ B(h).coherent_io /\ B(h).isa = "X86" /\ B(h).num_cores >= 2
        /\ Len(OwnCpuSide(h)) = 5

BoundMemPorts(h) == SelectSeq(OwnMemSide(h), LAMBDA p : p.obj = "memory")

\* C8: binding a memory port appends: no step removes or replaces an entry of
\* a membus's memory-side list, during the loop the run's memory ports on the
\* list are the first idx of the board's, and from the end of the loop on
\* they are all m of them, once each and in the board's order.
C8_MemPortsAppended ==
    /\ [][\A b \in BusIds : IsPrefix(xbar[b].mem_side_ports, xbar'[b].mem_side_ports)]_vars
    /\ [](\A h \in Hier : Started(h) =>
            BoundMemPorts(h) =
                IF pc[h] = "mem_ports"
                THEN SubSeq(B(h).mem_ports, 1, idx[h])
                ELSE [k \in 1..Len(B(h).mem_ports) |-> MemPort(h, k)])

C8_Witness ==
    \E h \in Hier : Built(h) /\ Len(B(h).mem_ports) >= 2 /\ Len(BoundMemPorts(h)) >= 2

\* C9: after incorporate_cache, for every core i, L2 crossbar i has exactly
\* the four core-facing connections L1I i, L1D i, instruction walker cache i,
\* data walker cache i and the one memory-facing connection L2 cache i; the
\* core's instruction, data and walker ports go to the caches of index i; no
\* object of core i is connected to a private object of another core.
C9_PrivateWiring ==
    \A h \in Hier : Done(h) =>
        \A i \in 1..B(h).num_cores :
            LET l2bus == Port(h, "l2bus", i, "cpu_side_ports") IN
            /\ hier[h].l2buses[i].cpu_side_ports =
                  <<Port(h, "l1icache", i, "mem_side"), Port(h, "l1dcache", i, "mem_side"),
                    Port(h, "iptw_cache", i, "mem_side"), Port(h, "dptw_cache", i, "mem_side")>>
            /\ hier[h].l2buses[i].mem_side_ports = <<Port(h, "l2cache", i, "cpu_side")>>
            /\ hier[h].l2caches[i].cpu_side = <<Port(h, "l2bus", i, "mem_side_ports")>>
            /\ hier[h].l1icaches[i].mem_side = <<l2bus>>
            /\ hier[h].l1dcaches[i].mem_side = <<l2bus>>
            /\ hier[h].iptw_caches[i].mem_side = <<l2bus>>
            /\ hier[h].dptw_caches[i].mem_side = <<l2bus>>
            /\ hier[h].l1icaches[i].cpu_side = <<ICachePort(h, i)>>
            /\ hier[h].l1dcaches[i].cpu_side = <<DCachePort(h, i)>>
            /\ hier[h].iptw_caches[i].cpu_side = <<ITBWalker(h, i)>>
            /\ hier[h].dptw_caches[i].cpu_side = <<DTBWalker(h, i)>>
            /\ B(h).cores[i].icache = <<Port(h, "l1icache", i, "cpu_side")>>
            /\ B(h).cores[i].dcache = <<Port(h, "l1dcache", i, "cpu_side")>>
            /\ B(h).cores[i].walker = << <<Port(h, "iptw_cache", i, "cpu_side"),
                                           Port(h, "dptw_cache", i, "cpu_side")>> >>

C9_Witness == \E h \in Hier : Done(h) /\ B(h).num_cores >= 2 /\ Len(hier[h].l2buses) >= 2

====
